---- MODULE Spec2Model ----
(***************************************************************************)
(* Model of the MediScan vision pipeline (backend/app/models/densenet.py): *)
(* severity triage, the predict handler, Grad-CAM and image preprocessing. *)
(*                                                                         *)
(* Confidences are integers in hundredths (0.85 is 85).  Real-valued       *)
(* results (normalised pixels, saliency values) are exact fractions        *)
(* <<numerator, denominator>>; a zero denominator is a NaN or an Inf.      *)
(***************************************************************************)
EXTENDS Integers, Naturals, Sequences, FiniteSets, TLC

\* ------------------------------------------------------------------------
\* Bounds of the model
\* ------------------------------------------------------------------------

\* longest conditions list handed to _classify_severity
MaxConditions == 2

\* ------------------------------------------------------------------------
\* Program constants
\* ------------------------------------------------------------------------

PATHOLOGY_LABELS ==
  << "Atelectasis", "Cardiomegaly", "Consolidation", "Edema",
     "Effusion", "Emphysema", "Fibrosis", "Hernia",
     "Infiltration", "Mass", "Nodule", "Pleural_Thickening",
     "Pneumonia", "Pneumothorax" >>

PathologyLabelSet == { PATHOLOGY_LABELS[i] : i \in 1..Len(PATHOLOGY_LABELS) }

\* the dict keeps insertion order, so iteration is URGENT first
SEVERITY_THRESHOLDS ==
  << [severity |-> "URGENT",   threshold |-> 85],
     [severity |-> "SEVERE",   threshold |-> 70],
     [severity |-> "MODERATE", threshold |-> 50],
     [severity |-> "MILD",     threshold |-> 30],
     [severity |-> "NORMAL",   threshold |-> 0] >>

URGENT_CONDITIONS == { "Pneumothorax", "Pneumonia", "Cardiomegaly" }

\* SeverityTier order NORMAL < MILD < MODERATE < SEVERE < URGENT
TierRank(t) ==
  CASE t = "NORMAL"   -> 0
    [] t = "MILD"     -> 1
    [] t = "MODERATE" -> 2
    [] t = "SEVERE"   -> 3
    [] t = "URGENT"   -> 4
    [] OTHER          -> -1

Tiers == { "NORMAL", "MILD", "MODERATE", "SEVERE", "URGENT" }

\* ------------------------------------------------------------------------
\* _classify_severity
\* ------------------------------------------------------------------------

RECURSIVE ScanThresholds(_, _)
\* for severity, threshold in SEVERITY_THRESHOLDS.items():
\*     if max_conf >= threshold: return severity
\* return "NORMAL"
ScanThresholds(max_conf, ladder) ==
  IF ladder = << >> THEN "NORMAL"
  ELSE IF max_conf >= Head(ladder).threshold THEN Head(ladder).severity
  ELSE ScanThresholds(max_conf, Tail(ladder))

RECURSIVE ScanThresholdsFlipped(_, _)
\* the ladder with the comparison the wrong way round
ScanThresholdsFlipped(max_conf, ladder) ==
  IF ladder = << >> THEN "NORMAL"
  ELSE IF max_conf <= Head(ladder).threshold THEN Head(ladder).severity
  ELSE ScanThresholdsFlipped(max_conf, Tail(ladder))

RECURSIVE ScanThresholdsStrict(_, _)
\* the ladder with exclusive thresholds
ScanThresholdsStrict(max_conf, ladder) ==
  IF ladder = << >> THEN "NORMAL"
  ELSE IF max_conf > Head(ladder).threshold THEN Head(ladder).severity
  ELSE ScanThresholdsStrict(max_conf, Tail(ladder))

\* _classify_severity without the override branch
classify_severity_NoOverride(conditions) ==
  IF conditions = << >> THEN "NORMAL"
  ELSE ScanThresholds(conditions[1].confidence, SEVERITY_THRESHOLDS)

\* _classify_severity with exclusive ladder thresholds
classify_severity_Strict(conditions) ==
  IF conditions = << >> THEN "NORMAL"
  ELSE IF conditions[1].name \in URGENT_CONDITIONS /\ conditions[1].confidence > 70
       THEN "URGENT"
  ELSE ScanThresholdsStrict(conditions[1].confidence, SEVERITY_THRESHOLDS)

\* _classify_severity without the empty-list guard: conditions[0] raises
classify_severity_NoEmptyGuard(conditions) ==
  IF conditions = << >> THEN "IndexError"
  ELSE IF conditions[1].name \in URGENT_CONDITIONS /\ conditions[1].confidence > 70
       THEN "URGENT"
  ELSE ScanThresholds(conditions[1].confidence, SEVERITY_THRESHOLDS)

\* _classify_severity with the ladder comparison flipped
classify_severity_Flipped(conditions) ==
  IF conditions = << >> THEN "NORMAL"
  ELSE IF conditions[1].name \in URGENT_CONDITIONS /\ conditions[1].confidence > 70
       THEN "URGENT"
  ELSE ScanThresholdsFlipped(conditions[1].confidence, SEVERITY_THRESHOLDS)

classify_severity(conditions) ==
  IF conditions = << >> THEN "NORMAL"
  ELSE LET max_conf == conditions[1].confidence
           top_name == conditions[1].name
       IN  IF top_name \in URGENT_CONDITIONS /\ max_conf > 70
           THEN "URGENT"
           ELSE ScanThresholds(max_conf, SEVERITY_THRESHOLDS)

\* ------------------------------------------------------------------------
\* Fractions <<numerator, denominator>>; a zero denominator is a non-finite
\* float (0/0 is NaN, x/0 is Inf)
\* ------------------------------------------------------------------------

IsFinite(v) == v[2] > 0

InUnitInterval(v) == IsFinite(v) /\ 0 <= v[1] /\ v[1] <= v[2]

IsZero(v) == IsFinite(v) /\ v[1] = 0

SeqMin(s) == CHOOSE m \in { s[i] : i \in DOMAIN s } :
               \A i \in DOMAIN s : m <= s[i]

SeqMax(s) == CHOOSE m \in { s[i] : i \in DOMAIN s } :
               \A i \in DOMAIN s : m >= s[i]

RECURSIVE SumSeq(_)
SumSeq(s) == IF s = << >> THEN 0 ELSE Head(s) + SumSeq(Tail(s))

\* ------------------------------------------------------------------------
\* Images and preprocess
\* ------------------------------------------------------------------------

\* largest height and width of an uploaded image
MaxDim == 2

\* 8-bit luminance values of the decoded image
PixelValues == { 0, 128, 255 }

\* Uploaded bytes: what PIL makes of them.  "ok" decodes to h x w luminance
\* rows; "unidentified" fails in Image.open; "truncated" fails when convert
\* loads the pixel data.
DecodableImages ==
  UNION { [ kind : {"ok"}, h : {hh}, w : {ww},
            pixels : [1..hh -> [1..ww -> PixelValues]] ] :
          hh \in 1..MaxDim, ww \in 1..MaxDim }

UndecodableImages ==
  { [ kind |-> k, h |-> 0, w |-> 0, pixels |-> << >> ] :
      k \in { "unidentified", "truncated" } }

\* a decoder told to load truncated files
DecodeError_Lenient(image_bytes) ==
  CASE image_bytes.kind = "unidentified" -> "UnidentifiedImageError"
    [] OTHER                             -> "none"

\* Image.open(io.BytesIO(image_bytes)).convert(...): the exception it raises,
\* "none" when the bytes decode
DecodeError(image_bytes) ==
  CASE image_bytes.kind = "unidentified" -> "UnidentifiedImageError"
    [] image_bytes.kind = "truncated"    -> "OSError"
    [] OTHER                             -> "none"

\* normalize that scales by 2048 instead of 1024
normalize_DoubleScale(pixel, maxval) == << (2 * pixel - maxval) * 2048, maxval >>

\* xrv.datasets.normalize(img, maxval): (2 * (img / maxval) - 1) * 1024
normalize(pixel, maxval) == << (2 * pixel - maxval) * 1024, maxval >>

\* XRayCenterCrop on an array of shape (1, y, x)
XRayCenterCrop(arr) ==
  LET y == arr.shape[2]
      x == arr.shape[3]
      crop_size == IF y <= x THEN y ELSE x
      startx == (x \div 2) - (crop_size \div 2)
      starty == (y \div 2) - (crop_size \div 2)
  IN  [ shape |-> << arr.shape[1], crop_size, crop_size >>,
        data  |-> [ r \in 1..crop_size |->
                    [ c \in 1..crop_size |-> arr.data[starty + r][startx + c] ] ] ]

\* XRayResizer(224): the array resampled to (1, 224, 224).  The resampled
\* values are interpolated from the cropped ones, which stay in data.
XRayResizer(arr, size) ==
  [ shape |-> << arr.shape[1], size, size >>, data |-> arr.data ]

\* preprocess of bytes that decode (DecodeError = "none")
preprocess(image_bytes) ==
  LET \* np.array(img) of the "L" image, then normalize(img_array, 255)
      normalized == [ r \in 1..image_bytes.h |->
                      [ c \in 1..image_bytes.w |->
                          normalize(image_bytes.pixels[r][c], 255) ] ]
      \* img_array[None, ...]
      with_channel == [ shape |-> << 1, image_bytes.h, image_bytes.w >>,
                        data  |-> normalized ]
      transformed == XRayResizer(XRayCenterCrop(with_channel), 224)
  IN  \* torch.from_numpy(...).unsqueeze(0)
      [ shape |-> << 1 >> \o transformed.shape, data |-> transformed.data ]

TensorValues(t) ==
  { t.data[r][c] : r \in DOMAIN t.data, c \in DOMAIN t.data[1] }

\* ------------------------------------------------------------------------
\* The classification engine (xrv.models.DenseNet in eval mode): a
\* deterministic function of its weights and the input tensor
\* ------------------------------------------------------------------------

\* channels of the hooked layer (denseblock4)
NumChannels == 2

\* spatial positions of the hooked layer, flattened
NumPositions == 2

Channels == 1..NumChannels

Positions == 1..NumPositions

LayerMaps(values) == [ Channels -> [ Positions -> values ] ]

\* weights.act feeds the hooked layer; weights.grad is the classifier behind
\* it, pooling followed by a linear layer: one weight per channel, the same
\* at every position
EngineWeights ==
  [ act  : LayerMaps({ 0, 1 }),
    grad : { [ c \in Channels |-> [ p \in Positions |-> row[c] ] ] :
               row \in [ Channels -> { -1, 0, 1 } ] } ]

\* what the hooked layer sees of the input at position p: 1 where the
\* input is dark, 2 where it is bright
InputFeature(tensor, p) ==
  LET n == Len(tensor.data)
      r == ((p - 1) % n) + 1
      c == (((p - 1) \div n) % n) + 1
  IN  IF tensor.data[r][c][1] <= 0 THEN 1 ELSE 2

\* output of denseblock4 in the forward pass
EngineActivations(w, tensor) ==
  [ c \in Channels |-> [ p \in Positions |->
      w.act[c][p] * InputFeature(tensor, p) ] ]

\* gradient of output[0, class_idx] at the output of denseblock4; the
\* classifier row of class_idx is w.grad with its channels rotated
EngineGradients(w, tensor, class_idx) ==
  [ c \in Channels |-> [ p \in Positions |->
      w.grad[((c - 1 + class_idx) % NumChannels) + 1][p]
        * InputFeature(tensor, p) ] ]

\* ------------------------------------------------------------------------
\* GradCAM.generate, lines 66-72: the map computed from the hooked values
\* ------------------------------------------------------------------------

\* the epsilon of the normalisation, 1e-8, is the unit of the raw map
EPSILON == 1

\* weights = self.gradients.mean(dim=[2, 3]), times NumPositions
ChannelWeights(gradients) ==
  [ c \in Channels |-> SumSeq(gradients[c]) ]

\* torch.relu((weights * self.activations).sum(dim=1)), times NumPositions
RawCam(gradients, activations) ==
  LET weights == ChannelWeights(gradients)
  IN  [ p \in Positions |->
        LET s == SumSeq([ c \in Channels |-> weights[c] * activations[c][p] ])
        IN  IF s > 0 THEN s ELSE 0 ]

\* (cam - cam.min()) / (cam.max() - cam.min()) with the epsilon left out
NormalizeCam_NoEpsilon(cam) ==
  [ p \in DOMAIN cam |-> << cam[p] - SeqMin(cam), SeqMax(cam) - SeqMin(cam) >> ]

\* (cam - cam.min()) / (cam.max() - cam.min() + 1e-8); numerator and
\* denominator both carry the factor NumPositions of RawCam
NormalizeCam(cam) ==
  [ p \in DOMAIN cam |->
      << cam[p] - SeqMin(cam),
         SeqMax(cam) - SeqMin(cam) + EPSILON * NumPositions >> ]

\* cv2.resize(cam, (224, 224)), bilinear, shown on one axis at twice the
\* resolution of the hooked layer: each output sample is 3/4 of the nearest
\* input sample and 1/4 of the next one, the border repeated
CvResize(cam) ==
  LET n == Len(cam)
      at(k) == IF k < 1 THEN cam[1] ELSE IF k > n THEN cam[n] ELSE cam[k]
  IN  [ j \in 1..(2 * n) |->
        LET k  == (j + 1) \div 2
            nb == IF j % 2 = 1 THEN k - 1 ELSE k + 1
        IN  << 3 * at(k)[1] + at(nb)[1], 4 * at(k)[2] >> ]

CamFromHooks(gradients, activations) ==
  CvResize(NormalizeCam(RawCam(gradients, activations)))

\* ------------------------------------------------------------------------
\* Inputs of the severity specification
\* ------------------------------------------------------------------------

\* the three override pathologies and two ordinary ones
SeverityNames == URGENT_CONDITIONS \cup { "Mass", "Nodule" }

\* confidences on and around every threshold of the ladder
SeverityConfidences == { 0, 20, 30, 31, 50, 55, 70, 75, 85, 95 }

PathologyScores ==
  [ name : SeverityNames, confidence : SeverityConfidences ]

IsSortedDesc(s) ==
  \A i \in 1..(Len(s) - 1) : s[i].confidence >= s[i + 1].confidence

\* ClassificationResult values: lists sorted by confidence descending
ClassificationResults ==
  { s \in UNION { [1..n -> PathologyScores] : n \in 0..MaxConditions } :
      IsSortedDesc(s) }

\* ------------------------------------------------------------------------
\* GradCAM hooks
\* ------------------------------------------------------------------------

\* self.gradients = None, self.activations = None
None == << >>

\* forward_hook: self.activations = output.detach()
forward_hook(current, output) == output

\* a backward hook that adds to what it captured before
backward_hook_Accumulate(current, grad_output) ==
  IF current = None THEN grad_output
  ELSE [ c \in Channels |-> [ p \in Positions |->
           current[c][p] + grad_output[c][p] ] ]

\* backward_hook: self.gradients = grad_output[0].detach()
backward_hook(current, grad_output) == grad_output

\* ------------------------------------------------------------------------
\* predict, lines 106-119: conditions and the Grad-CAM target
\* ------------------------------------------------------------------------

\* number of outputs of the engine (len(self.model.pathologies))
NumOutputs == 3

\* labels the engine may carry: one override pathology, one ordinary one and
\* one outside PATHOLOGY_LABELS
EngineLabels == { "Cardiomegaly", "Mass", "Lung Opacity" }

\* sigmoid outputs of the engine, in hundredths
EngineProbabilities == { 20, 75, 90 }

\* [{"name": label, "confidence": float(prob)} for label, prob in zip(...)
\*  if label in PATHOLOGY_LABELS]
RECURSIVE ZipFilter(_, _)
ZipFilter(labels, probabilities) ==
  IF labels = << >> \/ probabilities = << >> THEN << >>
  ELSE LET rest == ZipFilter(Tail(labels), Tail(probabilities))
       IN  IF Head(labels) \in PathologyLabelSet
           THEN << [ name |-> Head(labels), confidence |-> Head(probabilities) ] >>
                  \o rest
           ELSE rest

RECURSIVE InsertDesc_BeforeEqual(_, _)
\* insertion that puts x in front of the entries of equal confidence
InsertDesc_BeforeEqual(sorted, x) ==
  IF sorted = << >> THEN << x >>
  ELSE IF Head(sorted).confidence > x.confidence
       THEN << Head(sorted) >> \o InsertDesc_BeforeEqual(Tail(sorted), x)
       ELSE << x >> \o sorted

RECURSIVE InsertDesc(_, _)
\* x goes behind every entry whose confidence is at least its own
InsertDesc(sorted, x) ==
  IF sorted = << >> THEN << x >>
  ELSE IF Head(sorted).confidence >= x.confidence
       THEN << Head(sorted) >> \o InsertDesc(Tail(sorted), x)
       ELSE << x >> \o sorted

RECURSIVE SortDesc(_)
\* conditions.sort(key=lambda x: x["confidence"], reverse=True): stable,
\* entries of equal confidence keep their order
SortDesc(s) ==
  IF s = << >> THEN << >>
  ELSE InsertDesc(SortDesc(SubSeq(s, 1, Len(s) - 1)), s[Len(s)])

\* int(np.argmax(probabilities)): 0-based index of the first maximum
argmax(probabilities) ==
  (CHOOSE i \in DOMAIN probabilities :
     /\ \A j \in DOMAIN probabilities : probabilities[j] <= probabilities[i]
     /\ \A j \in DOMAIN probabilities :
          probabilities[j] = probabilities[i] => i <= j) - 1

\* ------------------------------------------------------------------------
\* generate_heatmap_overlay, lines 151-153
\* ------------------------------------------------------------------------

\* np.rint(heatmap * 255).astype(np.uint8): the nearest intensity
HeatmapIntensity_Rint(v) == (2 * v[1] * 255 + v[2]) \div (2 * v[2])

\* (heatmap * 255).astype(np.uint8) of a value in [0, 1]: the fraction is cut
HeatmapIntensity(v) == (v[1] * 255) \div v[2]

\* ------------------------------------------------------------------------
\* State
\* ------------------------------------------------------------------------

NoTensor == [ shape |-> << >>, data |-> << >> ]

NoImage == [ kind |-> "none", h |-> 0, w |-> 0, pixels |-> << >> ]

NoResult == [ conditions |-> << >>, severity |-> "none", heatmap |-> << >>,
              top_condition |-> "none" ]

NoCall == [ tensor |-> NoTensor, class_idx |-> -1 ]

NoOverlay == [ shape |-> << >>, intensity |-> << >> ]

VARIABLES
  conditions,      \* argument of the _classify_severity call
  severity,        \* its return value ("pending" before the call)
  conditions2,     \* argument of a second call: top only, or other confidence
  severity2,       \* return value of the second call
  weights,         \* the engine's weights, fixed when the model is loaded
  pathologies,     \* self.model.pathologies, the engine's label per output
  activations,     \* GradCAM.activations
  gradients,       \* GradCAM.gradients
  camCall,         \* arguments of the latest GradCAM.generate call
  cam,             \* saliency map it returned; the heatmap handed to the overlay
  returned,        \* log of the calls on the GradCAM instance and their maps
  calls,           \* number of calls made on the GradCAM instance
  image,           \* image bytes of the latest call
  probabilities,   \* sigmoid scores of the latest predict
  result,          \* return value of the latest predict
  tensor,          \* return value of the latest preprocess
  overlay,         \* return value of the latest generate_heatmap_overlay
  error,           \* exception the latest call raised, "none" if it returned
  lastCall,        \* the latest call on the vision model
  report,          \* return value of the latest generate_report
  fhirCall,        \* arguments of the latest generate_fhir_report call
  fhir,            \* the document it returned
  started,         \* the lifespan startup has run, requests are served
  modelInstance,   \* _model_instance of densenet.py, 0 for None
  modelLoads,      \* number of MediScanVisionModel() constructions
  loadedAt,        \* when the instance was constructed
  instancesSeen,   \* instances get_vision_model has returned
  storageMode,     \* StorageService with a blob client or in local mode
  blobs,           \* blobs held by the storage container
  outcome,         \* status of the response per scan_id
  request,         \* the latest request to POST /analyze
  response,        \* the response it got
  raised,          \* exception caught by analyze_scan, "none" if none
  stepRuns,        \* times each pipeline step ran for the latest request
  pc,              \* position of each in-flight request's coroutine
  running,         \* request whose coroutine holds the event loop, 0 if none
  reqCall,         \* tensor and class index of each request's predict
  reqCam,          \* saliency map each request's predict computed
  actOwner,        \* request whose forward pass wrote GradCAM.activations
  gradOwner        \* request whose backward pass wrote GradCAM.gradients

sevVars == << conditions, severity, conditions2, severity2 >>

engineVars == << weights, pathologies >>

hookVars == << activations, gradients >>

camVars == << camCall, cam, returned, calls >>

callVars == << image, probabilities, result, tensor, overlay, error, lastCall >>

docVars == << report, fhirCall, fhir >>

apiVars == << started, modelInstance, modelLoads, loadedAt, instancesSeen,
              storageMode, blobs, outcome, request, response, raised, stepRuns >>

loopVars == << pc, running, reqCall, reqCam, actOwner, gradOwner >>

serviceVars == << docVars, apiVars, loopVars >>

vars == << sevVars, engineVars, hookVars, camVars, callVars, serviceVars >>

\* one engine: channel c of the hooked layer looks at position c, the
\* classifier weighs the first channel only
SomeWeights ==
  [ act  |-> [ c \in Channels |-> [ p \in Positions |-> IF p = c THEN 1 ELSE 0 ] ],
    grad |-> [ c \in Channels |-> [ p \in Positions |-> IF c = 1 THEN 1 ELSE 0 ] ] ]

\* engines that differ in the classifier only
ClassifierWeights == { w \in EngineWeights : w.act = SomeWeights.act }

SevIdle ==
  /\ conditions = << >>
  /\ severity = "pending"
  /\ conditions2 = << >>
  /\ severity2 = "pending"

EngineIdle ==
  /\ weights = SomeWeights
  /\ pathologies = << >>

\* GradCAM.__init__
HooksInit ==
  /\ activations = None
  /\ gradients = None

CamIdle ==
  /\ camCall = NoCall
  /\ cam = << >>
  /\ returned = << >>
  /\ calls = 0

CallIdle ==
  /\ image = NoImage
  /\ probabilities = << >>
  /\ result = NoResult
  /\ tensor = NoTensor
  /\ overlay = NoOverlay
  /\ error = "none"
  /\ lastCall = "none"

NoReport == [ technique |-> "none", findings |-> << "none" >>,
              impression |-> << "none" >>, recommendation |-> "none",
              disclaimer |-> "none" ]

NoFhirCall == [ scan_id |-> 0, conditions |-> << >>, report_sections |-> NoReport,
                severity |-> "none" ]

NoFhir == [ resourceType |-> "none" ]

NoRequest == [ token |-> "none", content_type |-> "none", size |-> 0,
               image |-> NoImage ]

NoBody == [ scan_id |-> 0 ]

NoResponse == [ status |-> 0, detail |-> "none", body |-> NoBody ]

DocIdle ==
  /\ report = NoReport
  /\ fhirCall = NoFhirCall
  /\ fhir = NoFhir

ApiIdle ==
  /\ started = FALSE
  /\ modelInstance = 0
  /\ modelLoads = 0
  /\ loadedAt = "none"
  /\ instancesSeen = { }
  /\ storageMode = "local"
  /\ blobs = { }
  /\ outcome = << >>
  /\ request = NoRequest
  /\ response = NoResponse
  /\ raised = "none"
  /\ stepRuns = << >>

LoopIdle ==
  /\ pc = << >>
  /\ running = 0
  /\ reqCall = << >>
  /\ reqCam = << >>
  /\ actOwner = 0
  /\ gradOwner = 0

ServiceIdle == DocIdle /\ ApiIdle /\ LoopIdle

\* ------------------------------------------------------------------------
\* Specification of _classify_severity
\* ------------------------------------------------------------------------

SevInit ==
  /\ conditions \in ClassificationResults
  /\ severity = "pending"
  /\ conditions2 = << >>
  /\ severity2 = "pending"
  /\ EngineIdle /\ HooksInit /\ CamIdle /\ CallIdle /\ ServiceIdle

\* severity = self._classify_severity(conditions)
ClassifySeverity ==
  /\ severity = "pending"
  /\ severity' = classify_severity(conditions)
  /\ UNCHANGED << conditions, conditions2, severity2 >>
  /\ UNCHANGED << engineVars, hookVars, camVars, callVars, serviceVars >>

\* a second call on the top element alone
ClassifyTopOnly ==
  /\ severity # "pending"
  /\ severity2 = "pending"
  /\ conditions # << >>
  /\ conditions2' = << conditions[1] >>
  /\ severity2' = classify_severity(conditions2')
  /\ UNCHANGED << conditions, severity >>
  /\ UNCHANGED << engineVars, hookVars, camVars, callVars, serviceVars >>

\* a second call on the same top pathology at another confidence
ClassifyOtherConfidence ==
  /\ severity # "pending"
  /\ severity2 = "pending"
  /\ Len(conditions) = 1
  /\ \E c \in SeverityConfidences :
       conditions2' = << [ name |-> conditions[1].name, confidence |-> c ] >>
  /\ severity2' = classify_severity(conditions2')
  /\ UNCHANGED << conditions, severity >>
  /\ UNCHANGED << engineVars, hookVars, camVars, callVars, serviceVars >>

SevNext == ClassifySeverity \/ ClassifyTopOnly \/ ClassifyOtherConfidence

SpecSeverity == SevInit /\ [][SevNext]_vars

\* ------------------------------------------------------------------------
\* Claims about _classify_severity
\* ------------------------------------------------------------------------

OverrideApplies(conds) ==
  /\ conds # << >>
  /\ conds[1].name \in URGENT_CONDITIONS
  /\ conds[1].confidence > 70

\* C1: a result whose top element is an override pathology with confidence
\* above 0.70 is classified URGENT, also below the 0.85 of the ladder, and
\* the elements behind the top one do not change that
C1_OverrideIsUrgent ==
  /\ (severity # "pending" /\ OverrideApplies(conditions))
       => severity = "URGENT"
  /\ (severity2 # "pending" /\ OverrideApplies(conditions)
        /\ conditions2 = << conditions[1] >>)
       => severity2 = severity

C1_Witness ==
  /\ Len(conditions) = 2
  /\ conditions[1] = [ name |-> "Pneumothorax", confidence |-> 75 ]
  /\ severity = "URGENT"
  /\ conditions2 = << conditions[1] >>
  /\ severity2 = "URGENT"

\* the rungs of the ladder in front of rung i all lie above the confidence
FirstRungAtOrBelow(i, confidence) ==
  /\ SEVERITY_THRESHOLDS[i].threshold <= confidence
  /\ \A j \in 1..(i - 1) : SEVERITY_THRESHOLDS[j].threshold > confidence

\* C2: without the override, a top confidence in [0,1] gets the first tier of
\* URGENT 0.85, SEVERE 0.70, MODERATE 0.50, MILD 0.30, NORMAL 0.0 whose
\* threshold is at most the confidence; the result is always one of the five
C2_ThresholdLadder ==
  (/\ severity # "pending"
   /\ conditions # << >>
   /\ ~OverrideApplies(conditions)
   /\ conditions[1].confidence \in 0..100)
    => /\ severity \in Tiers
       /\ \E i \in DOMAIN SEVERITY_THRESHOLDS :
            /\ SEVERITY_THRESHOLDS[i].severity = severity
            /\ FirstRungAtOrBelow(i, conditions[1].confidence)
       /\ conditions[1] = [ name |-> "Nodule", confidence |-> 95 ]
            => severity = "URGENT"
       /\ conditions[1] = [ name |-> "Mass", confidence |-> 55 ]
            => severity = "MODERATE"
       /\ conditions[1] = [ name |-> "Mass", confidence |-> 20 ]
            => severity = "NORMAL"

C2_Witness ==
  /\ conditions # << >>
  /\ conditions[1] = [ name |-> "Mass", confidence |-> 30 ]
  /\ severity = "MILD"

\* C3: the empty result is classified NORMAL
C3_EmptyIsNormal ==
  (severity # "pending" /\ conditions = << >>) => severity = "NORMAL"

C3_Witness ==
  /\ conditions = << >>
  /\ severity = "NORMAL"

\* C4: two single-element results with the same pathology outside the
\* override set: the one with the higher confidence never gets the lower tier
C4_Monotonic ==
  (/\ severity # "pending"
   /\ severity2 # "pending"
   /\ Len(conditions) = 1
   /\ Len(conditions2) = 1
   /\ conditions[1].name = conditions2[1].name
   /\ conditions[1].name \notin URGENT_CONDITIONS)
    => /\ conditions[1].confidence <= conditions2[1].confidence
            => TierRank(severity) <= TierRank(severity2)
       /\ conditions2[1].confidence <= conditions[1].confidence
            => TierRank(severity2) <= TierRank(severity)

C4_Witness ==
  /\ conditions = << [ name |-> "Mass", confidence |-> 30 ] >>
  /\ conditions2 = << [ name |-> "Mass", confidence |-> 85 ] >>
  /\ severity = "MILD"
  /\ severity2 = "URGENT"

\* ------------------------------------------------------------------------
\* GradCAM.generate and the calls on the vision model
\* ------------------------------------------------------------------------

\* GradCAM.generate(image_tensor, class_idx): the forward pass fires the
\* forward hook, the backward pass of output[0, class_idx] the backward hook,
\* the map is computed from what the hooks captured
Generate(image_tensor, class_idx) ==
  /\ activations' = forward_hook(activations,
                                 EngineActivations(weights, image_tensor))
  /\ gradients' = backward_hook(gradients,
                                EngineGradients(weights, image_tensor, class_idx))
  /\ cam' = CamFromHooks(gradients', activations')
  /\ camCall' = [ tensor |-> image_tensor, class_idx |-> class_idx ]

\* images sent to predict: one that does not decode and one that does
PredictImages ==
  { i \in UndecodableImages : i.kind = "unidentified" }
    \cup { i \in DecodableImages : i.h = 1 /\ i.w = 1 /\ i.pixels[1][1] = 255 }

PredictInit ==
  /\ SevIdle /\ HooksInit /\ CamIdle /\ CallIdle /\ ServiceIdle
  /\ weights = SomeWeights
  /\ pathologies \in [ 1..NumOutputs -> EngineLabels ]

\* predict(image_bytes); scores are the sigmoid outputs of the forward pass
predict(image_bytes, scores) ==
  /\ image' = image_bytes
  /\ lastCall' = "predict"
  /\ UNCHANGED << sevVars, engineVars, tensor, overlay, calls, returned >>
  /\ IF DecodeError(image_bytes) # "none"
     THEN \* preprocess raises, nothing else runs
          /\ error' = DecodeError(image_bytes)
          /\ result' = NoResult
          /\ probabilities' = << >>
          /\ UNCHANGED << hookVars, camCall, cam >>
     ELSE LET img_tensor == preprocess(image_bytes)
              sorted == SortDesc(ZipFilter(pathologies, scores))
              top_condition_idx == argmax(scores)
          IN  \* the forward pass under no_grad fires the forward hook too;
              \* generate runs the same forward pass again
              /\ Generate(img_tensor, top_condition_idx)
              /\ probabilities' = scores
              /\ error' = "none"
              /\ result' =
                   [ conditions    |-> sorted,
                     severity      |-> classify_severity(sorted),
                     heatmap       |-> cam',
                     top_condition |-> IF sorted # << >> THEN sorted[1].name
                                       ELSE "Normal" ]

\* a call of predict on the vision model alone
Predict(image_bytes, scores) ==
  /\ predict(image_bytes, scores)
  /\ UNCHANGED serviceVars

PredictNext ==
  \E image_bytes \in PredictImages :
    IF DecodeError(image_bytes) # "none"
    THEN Predict(image_bytes, << >>)
    ELSE \E scores \in [ 1..NumOutputs -> EngineProbabilities ] :
           Predict(image_bytes, scores)

SpecPredict == PredictInit /\ [][PredictNext]_vars

\* ------------------------------------------------------------------------
\* Claims about predict
\* ------------------------------------------------------------------------

\* the entries of s with confidence c, in order
AtConfidence(s, c) == SelectSeq(s, LAMBDA x : x.confidence = c)

\* C5: the conditions returned by predict are in non-increasing order of
\* confidence, entries of equal confidence are in the order the labels had
\* before the sort, and every name is one of the 14 pathology labels
C5_ConditionsSorted ==
  (lastCall = "predict" /\ error = "none")
    => /\ IsSortedDesc(result.conditions)
       /\ \A c \in EngineProbabilities :
            AtConfidence(result.conditions, c)
              = AtConfidence(ZipFilter(pathologies, probabilities), c)
       /\ \A i \in DOMAIN result.conditions :
            result.conditions[i].name \in PathologyLabelSet

C5_Witness ==
  /\ lastCall = "predict"
  /\ error = "none"
  /\ pathologies = << "Mass", "Lung Opacity", "Cardiomegaly" >>
  /\ probabilities = << 75, 90, 75 >>
  /\ result.conditions = << [ name |-> "Mass", confidence |-> 75 ],
                            [ name |-> "Cardiomegaly", confidence |-> 75 ] >>

\* C6: the class index handed to GradCAM.generate is the index of the
\* pathology at the top of the returned conditions
C6_TopDrivesSaliency ==
  (lastCall = "predict" /\ error = "none" /\ result.conditions # << >>)
    => /\ pathologies[camCall.class_idx + 1] = result.conditions[1].name
       /\ pathologies[camCall.class_idx + 1] = result.top_condition

\* ------------------------------------------------------------------------
\* Specifications of GradCAM
\* ------------------------------------------------------------------------

\* calls made on one GradCAM instance
MaxCalls == 3

\* tensors of a dark and of a bright image
GradCamTensors ==
  { preprocess(i) : i \in { d \in DecodableImages :
      d.h = 1 /\ d.w = 1 /\ d.pixels[1][1] \in { 0, 255 } } }

ClassIndices == 0..(NumOutputs - 1)

\* a caller runs grad_cam.generate(image_tensor, class_idx)
CallGenerate(image_tensor, class_idx) ==
  /\ Generate(image_tensor, class_idx)
  /\ calls' = calls + 1
  /\ lastCall' = "generate"
  /\ returned' = Append(returned,
       [ call |-> "generate", tensor |-> image_tensor,
         class_idx |-> class_idx, cam |-> cam' ])
  /\ UNCHANGED << sevVars, engineVars, serviceVars >>
  /\ UNCHANGED << image, probabilities, result, tensor, overlay, error >>

\* a caller runs self.model(img_tensor) under no_grad, as predict does: the
\* forward hook fires, nothing is back-propagated
CallForward(image_tensor) ==
  /\ activations' = forward_hook(activations,
                                 EngineActivations(weights, image_tensor))
  /\ calls' = calls + 1
  /\ lastCall' = "forward"
  /\ returned' = Append(returned,
       [ call |-> "forward", tensor |-> image_tensor,
         class_idx |-> -1, cam |-> << >> ])
  /\ UNCHANGED << gradients, camCall, cam >>
  /\ UNCHANGED << sevVars, engineVars, serviceVars >>
  /\ UNCHANGED << image, probabilities, result, tensor, overlay, error >>

GradCamInit ==
  /\ SevIdle /\ HooksInit /\ CamIdle /\ CallIdle /\ ServiceIdle
  /\ weights \in ClassifierWeights
  /\ pathologies = << >>

GradCamGenerate ==
  /\ calls < MaxCalls
  /\ \E t \in GradCamTensors : \E class_idx \in ClassIndices :
       CallGenerate(t, class_idx)

GradCamForward ==
  /\ calls < MaxCalls
  /\ \E t \in GradCamTensors : CallForward(t)

GradCamNext == GradCamGenerate \/ GradCamForward

SpecGradCAM == GradCamInit /\ [][GradCamNext]_vars

\* the first generate call on a fresh instance, for every engine
SaliencyInit ==
  /\ SevIdle /\ HooksInit /\ CamIdle /\ CallIdle /\ ServiceIdle
  /\ weights \in EngineWeights
  /\ pathologies = << >>

SaliencyGenerate ==
  /\ calls = 0
  /\ \E t \in GradCamTensors : \E class_idx \in ClassIndices :
       CallGenerate(t, class_idx)

SpecSaliency == SaliencyInit /\ [][SaliencyGenerate]_vars

\* ------------------------------------------------------------------------
\* Claims about GradCAM.generate
\* ------------------------------------------------------------------------

AllZeroMap(m) == \A c \in DOMAIN m : \A p \in DOMAIN m[c] : m[c][p] = 0

\* C7: every value of the map generate returns lies in [0,1]; when the raw
\* map is all zero, as it is for all-zero gradients, the returned map is all
\* zero, and no value is NaN or Inf
C7_SaliencyInUnitInterval ==
  lastCall = "generate"
    => /\ \A j \in DOMAIN cam : InUnitInterval(cam[j])
       /\ (\A p \in Positions : RawCam(gradients, activations)[p] = 0)
            => \A j \in DOMAIN cam : IsZero(cam[j])
       /\ AllZeroMap(gradients) => \A j \in DOMAIN cam : IsZero(cam[j])

C7_Witness ==
  /\ lastCall = "generate"
  /\ AllZeroMap(gradients)
  /\ ~AllZeroMap(activations)
  /\ \A j \in DOMAIN cam : IsZero(cam[j])

\* a second state of the same claim: a map that is not flat
C7_WitnessPeak ==
  /\ lastCall = "generate"
  /\ \E j \in DOMAIN cam : cam[j][1] > 0
  /\ \E j \in DOMAIN cam : cam[j][1] = 0

\* C8: two generate calls on one instance with the same tensor and class
\* index return the same map, whatever was called before or between them
C8_GenerateDeterministic ==
  \A i \in DOMAIN returned : \A j \in DOMAIN returned :
    (/\ returned[i].call = "generate"
     /\ returned[j].call = "generate"
     /\ returned[i].tensor = returned[j].tensor
     /\ returned[i].class_idx = returned[j].class_idx)
      => returned[i].cam = returned[j].cam

C8_Witness ==
  /\ Len(returned) = 3
  /\ returned[1].call = "generate"
  /\ returned[3].call = "generate"
  /\ returned[2].call = "generate"
  /\ returned[1].tensor = returned[3].tensor
  /\ returned[1].class_idx = returned[3].class_idx
  /\ returned[2].tensor # returned[1].tensor
  /\ returned[2].class_idx # returned[1].class_idx
  /\ returned[2].cam # returned[1].cam
  /\ returned[1].cam = returned[3].cam

\* ------------------------------------------------------------------------
\* Specification of preprocess and generate_heatmap_overlay
\* ------------------------------------------------------------------------

\* saliency maps handed to the overlay
SampleHeatmaps ==
  { CamFromHooks(EngineGradients(w, t, 0), EngineActivations(w, t)) :
      w \in ClassifierWeights, t \in GradCamTensors }

ImageInit ==
  /\ SevIdle /\ EngineIdle /\ HooksInit /\ ServiceIdle
  /\ camCall = NoCall /\ returned = << >> /\ calls = 0
  /\ cam \in SampleHeatmaps
  /\ image \in DecodableImages \cup UndecodableImages
  /\ probabilities = << >>
  /\ result = NoResult
  /\ tensor = NoTensor
  /\ overlay = NoOverlay
  /\ error = "none"
  /\ lastCall = "none"

\* img_tensor = self.preprocess(image_bytes)
Preprocess ==
  /\ lastCall = "none"
  /\ lastCall' = "preprocess"
  /\ IF DecodeError(image) # "none"
     THEN /\ error' = DecodeError(image)
          /\ tensor' = NoTensor
     ELSE /\ error' = "none"
          /\ tensor' = preprocess(image)
  /\ UNCHANGED << sevVars, engineVars, hookVars, camVars, serviceVars >>
  /\ UNCHANGED << image, probabilities, result, overlay >>

\* generate_heatmap_overlay(original_bytes, heatmap): the image stretched to
\* 224 x 224, the heatmap cut to 8 bits and coloured, the two blended 0.6 to
\* 0.4 and encoded; the overlay keeps the 8-bit heatmap the colours are
\* looked up with
GenerateHeatmapOverlay ==
  /\ lastCall = "none"
  /\ lastCall' = "generate_heatmap_overlay"
  /\ IF DecodeError(image) # "none"
     THEN /\ error' = DecodeError(image)
          /\ overlay' = NoOverlay
     ELSE /\ error' = "none"
          /\ overlay' = [ shape |-> << 224, 224, 3 >>,
                          intensity |-> [ j \in DOMAIN cam |->
                                            HeatmapIntensity(cam[j]) ] ]
  /\ UNCHANGED << sevVars, engineVars, hookVars, camVars, serviceVars >>
  /\ UNCHANGED << image, probabilities, result, tensor >>

ImageNext == Preprocess \/ GenerateHeatmapOverlay

SpecImage == ImageInit /\ [][ImageNext]_vars

\* ------------------------------------------------------------------------
\* Claims about preprocess and generate_heatmap_overlay
\* ------------------------------------------------------------------------

InNormalizationRange(v) ==
  /\ v[2] > 0
  /\ -1024 * v[2] <= v[1]
  /\ v[1] <= 1024 * v[2]

\* C9: for an image that decodes, preprocess returns a tensor of shape
\* [1,1,224,224] with every value in [-1024, 1024], intensity 0 at -1024 and
\* intensity 255 at 1024
C9_PreprocessShapeAndRange ==
  (lastCall = "preprocess" /\ DecodeError(image) = "none")
    => /\ error = "none"
       /\ tensor.shape = << 1, 1, 224, 224 >>
       /\ \A v \in TensorValues(tensor) : InNormalizationRange(v)
       /\ (image.h = 1 /\ image.w = 1 /\ image.pixels[1][1] = 0)
            => tensor.data[1][1][1] = -1024 * tensor.data[1][1][2]
       /\ (image.h = 1 /\ image.w = 1 /\ image.pixels[1][1] = 255)
            => tensor.data[1][1][1] = 1024 * tensor.data[1][1][2]

C9_Witness ==
  /\ lastCall = "preprocess"
  /\ image.kind = "ok"
  /\ image.h = 2
  /\ image.w = 1
  /\ image.pixels[2][1] = 255
  /\ tensor.shape = << 1, 1, 224, 224 >>
  /\ tensor.data = << << << 1024 * 255, 255 >> >> >>

Percent(confidence) == (confidence * 100) \div 100

REPORT_DISCLAIMER == "AI-generated, not medical advice"

SEVERITY_RECOMMENDATIONS ==
  [ URGENT   |-> "URGENT: Immediate clinical review required.",
    SEVERE   |-> "Prompt clinical correlation recommended.",
    MODERATE |-> "Clinical correlation recommended.",
    MILD     |-> "Findings noted.",
    NORMAL   |-> "No acute cardiopulmonary findings." ]

\* dict.get(key, default)
Get(d, key, default) == IF key \in DOMAIN d THEN d[key] ELSE default

NORMAL_FINDINGS ==
  << "No acute cardiopulmonary findings identified. Lung fields appear clear bilaterally." >>

NORMAL_IMPRESSION ==
  << "Normal chest radiograph. No acute disease identified." >>

\* conditions[:n]
Prefix(s, n) == SubSeq(s, 1, IF Len(s) < n THEN Len(s) ELSE n)

\* [c for c in conditions if c["confidence"] > 0.30]
Significant(conds) ==
  SelectSeq(conds, LAMBDA c : c.confidence > 30)

\* the text the language model continues the prompt with is the model's own;
\* it is kept as the prompt it was generated from
GeneratedFindings(significant) ==
  << "The chest radiograph demonstrates",
     [ i \in 1..Len(Prefix(significant, 5)) |->
         << significant[i].name, Percent(significant[i].confidence) >> ] >>

generate_report(conds, sev) ==
  LET significant == Significant(conds)
      normal == Len(significant) = 0
  IN  [ technique      |-> "PA chest X-ray",
        findings       |-> IF normal THEN NORMAL_FINDINGS
                           ELSE GeneratedFindings(significant),
        impression     |-> IF normal THEN NORMAL_IMPRESSION
                           ELSE << "Findings most consistent with",
                                   significant[1].name,
                                   Percent(significant[1].confidence), sev >>,
        recommendation |-> Get(SEVERITY_RECOMMENDATIONS, sev,
                               SEVERITY_RECOMMENDATIONS["NORMAL"]),
        disclaimer     |-> REPORT_DISCLAIMER ]

\* ------------------------------------------------------------------------
\* Specification of the severity and the report of one scan
\* ------------------------------------------------------------------------

ReportInit ==
  /\ conditions \in ClassificationResults
  /\ severity = "pending"
  /\ conditions2 = << >>
  /\ severity2 = "pending"
  /\ EngineIdle /\ HooksInit /\ CamIdle /\ CallIdle /\ ServiceIdle

\* analyze_scan hands predict's conditions and severity to generate_report
GenerateReport ==
  /\ severity = "pending"
  /\ severity' = classify_severity(conditions)
  /\ report' = generate_report(conditions, severity')
  /\ UNCHANGED << conditions, conditions2, severity2, fhirCall, fhir >>
  /\ UNCHANGED << engineVars, hookVars, camVars, callVars, apiVars, loopVars >>

SpecReport == ReportInit /\ [][GenerateReport]_vars

IsNormalReport(r) ==
  /\ r.findings = NORMAL_FINDINGS
  /\ r.impression = NORMAL_IMPRESSION

\* C19: for a conditions list sorted by confidence descending whose severity
\* _classify_severity computed, generate_report emits the normal findings and
\* impression if and only if the severity is NORMAL
C19_ReportAgreesOnNormality ==
  severity # "pending" =>
    (IsNormalReport(report) <=> severity = "NORMAL")

\* ------------------------------------------------------------------------
\* generate_fhir_report
\* ------------------------------------------------------------------------

MaxFhirConditions == 6

\* for i, c in enumerate(conditions): every condition, no slice
Observed_All(conds) == conds

\* for i, c in enumerate(conditions[:5])
Observed(conds) == Prefix(conds, 5)

build_text_report(sections) ==
  << "TECHNIQUE:", Get(sections, "technique", ""),
     "FINDINGS:", Get(sections, "findings", << >>),
     "IMPRESSION:", Get(sections, "impression", << >>),
     "RECOMMENDATION:", Get(sections, "recommendation", ""),
     Get(sections, "disclaimer", "") >>

\* the document json.dumps serialises; its keys and values are kept as they
\* are in the dict, the two timestamps are the clock's and are left out
generate_fhir_report(scan_id, conds, report_sections, sev) ==
  LET observed == Observed(conds)
      observations ==
        [ k \in 1..Len(observed) |->
            [ reference |-> << "Observation", scan_id, k - 1 >>,
              display   |-> << observed[k].name,
                               Percent(observed[k].confidence) >> ] ]
  IN  [ resourceType   |-> "DiagnosticReport",
        id             |-> scan_id,
        status         |-> "preliminary",
        category       |-> "RAD",
        code           |-> "24748-6",
        result         |-> observations,
        conclusion     |-> Get(report_sections, "impression", << >>),
        conclusionCode |-> << [ coding |->
                                  << [ system  |-> "http://mediscan.ai/severity",
                                       code    |-> sev,
                                       display |-> << "AI Severity", sev >> ] >> ] >>,
        presentedForm  |-> << [ contentType |-> "text/plain",
                                title |-> "AI-Generated Radiology Report",
                                data  |-> build_text_report(report_sections) ] >>,
        extension      |-> << [ url |-> "http://mediscan.ai/disclaimer",
                                valueString |->
                                  Get(report_sections, "disclaimer", "") ] >> ]

\* ------------------------------------------------------------------------
\* Specification of generate_fhir_report
\* ------------------------------------------------------------------------

FhirScores ==
  { [ name |-> "Mass", confidence |-> 75 ],
    [ name |-> "Effusion", confidence |-> 20 ] }

FhirConditions ==
  UNION { [ 1..n -> FhirScores ] : n \in 0..MaxFhirConditions }

\* report sections: a full report, or a dict that has no impression
FhirSections(conds, sev) ==
  { generate_report(conds, sev),
    [ findings |-> << "Cardiomegaly noted." >> ] }

FhirInit ==
  /\ SevIdle /\ EngineIdle /\ HooksInit /\ CamIdle /\ CallIdle
  /\ ApiIdle /\ LoopIdle
  /\ report = NoReport
  /\ fhir = NoFhir
  /\ \E scan_id \in 1..2, conds \in FhirConditions, sev \in Tiers :
       \E sections \in FhirSections(conds, sev) :
         fhirCall = [ scan_id |-> scan_id, conditions |-> conds,
                      report_sections |-> sections, severity |-> sev ]

GenerateFhirReport ==
  /\ fhir = NoFhir
  /\ fhir' = generate_fhir_report(fhirCall.scan_id, fhirCall.conditions,
                                  fhirCall.report_sections, fhirCall.severity)
  /\ UNCHANGED << report, fhirCall >>
  /\ UNCHANGED << sevVars, engineVars, hookVars, camVars, callVars, apiVars,
                  loopVars >>

SpecFhir == FhirInit /\ [][GenerateFhirReport]_vars

\* C15: the document generate_fhir_report returns is a preliminary
\* DiagnosticReport whose conclusion is the impression section, with a
\* presentedForm entry, a conclusionCode coded with the severity passed in,
\* and one result observation per condition for the first five conditions in
\* input order, never more than five
C15_FhirStructure ==
  fhir.resourceType # "none" =>
    LET conds == fhirCall.conditions
        n == IF Len(conds) < 5 THEN Len(conds) ELSE 5
    IN  /\ fhir.resourceType = "DiagnosticReport"
        /\ fhir.status = "preliminary"
        /\ "impression" \in DOMAIN fhirCall.report_sections =>
             fhir.conclusion = fhirCall.report_sections.impression
        /\ Len(fhir.presentedForm) >= 1
        /\ \E k \in 1..Len(fhir.conclusionCode) :
             \E j \in 1..Len(fhir.conclusionCode[k].coding) :
               fhir.conclusionCode[k].coding[j].code = fhirCall.severity
        /\ Len(fhir.result) = n
        /\ Len(fhir.result) <= 5
        /\ \A k \in 1..n :
             /\ fhir.result[k].display[1] = conds[k].name
             /\ fhir.result[k].display[2] = conds[k].confidence
             /\ fhir.result[k].reference = << "Observation", fhirCall.scan_id, k - 1 >>

\* a report of more than five conditions that has an impression
C15_Witness ==
  /\ fhir.resourceType = "DiagnosticReport"
  /\ Len(fhirCall.conditions) > 5
  /\ fhirCall.conditions[1] # fhirCall.conditions[2]
  /\ "impression" \in DOMAIN fhirCall.report_sections
  /\ Len(fhir.result) = 5

\* ------------------------------------------------------------------------
\* POST /analyze
\* ------------------------------------------------------------------------

MaxRequests == 2

\* ALLOWED_CONTENT_TYPES with a document type let through
ALLOWED_CONTENT_TYPES_Any ==
  { "image/jpeg", "image/png", "image/jpg", "application/pdf" }

ALLOWED_CONTENT_TYPES == { "image/jpeg", "image/png", "image/jpg" }

MAX_FILE_SIZE_BYTES == 10 * 1024 * 1024

SEVERITY_COLORS ==
  [ URGENT   |-> "#DC2626",
    SEVERE   |-> "#EA580C",
    MODERATE |-> "#D97706",
    MILD     |-> "#65A30D",
    NORMAL   |-> "#16A34A" ]

\* Depends(get_current_user) with a Bearer scheme: a request that carries no
\* Bearer token is answered 403 before the handler body runs
get_current_user(token) ==
  IF token = "none"
  THEN [ status |-> 403, detail |-> "Not authenticated", sub |-> "none" ]
  ELSE [ status |-> 200, detail |-> "none", sub |-> "demo" ]

\* the calls inside the try block, in the order analyze_scan makes them
PIPELINE_STEPS ==
  << "get_vision_model", "predict", "overlay", "report", "upload_heatmap",
     "fhir", "upload_fhir" >>

StepNames == { PIPELINE_STEPS[k] : k \in 1..Len(PIPELINE_STEPS) }

\* the step at which a call into a model, a library or the blob service
\* raises; "none" when every such call returns
Faults == { "none" } \cup (StepNames \ { "predict" })

\* str(e) of the exception a step raises, "none" when it returns
Raises(step, req, fault) ==
  CASE step = "predict" -> DecodeError(req.image)
    [] step = "get_vision_model" ->
         \* the model is constructed on the first call only
         IF fault = step /\ modelInstance = 0
         THEN "RuntimeError: weights unavailable" ELSE "none"
    [] step \in { "upload_heatmap", "upload_fhir" } ->
         \* in local mode upload_bytes returns before it calls the service
         IF fault = step /\ storageMode = "azure"
         THEN "ServiceRequestError: blob endpoint unreachable" ELSE "none"
    [] step = "overlay" ->
         IF fault = step THEN "cv2.error: resize failed" ELSE "none"
    [] step = "report" ->
         IF fault = step THEN "OSError: microsoft/biogpt not found" ELSE "none"
    [] OTHER ->
         IF fault = step THEN "TypeError: not JSON serializable" ELSE "none"

\* index of the first step that raises, 0 when none does
FirstFailure(req, fault) ==
  LET failing == { k \in 1..Len(PIPELINE_STEPS) :
                     Raises(PIPELINE_STEPS[k], req, fault) # "none" }
  IN  IF failing = { } THEN 0
      ELSE CHOOSE k \in failing : \A j \in failing : k <= j

\* raise HTTPException(status_code=500, detail=str(e))
pipeline_failure_Leaky(e) ==
  [ status |-> 500, detail |-> e, body |-> NoBody ]

\* except Exception as e: raise HTTPException(status_code=500, detail=...)
pipeline_failure(e) ==
  [ status |-> 500, detail |-> "Analysis pipeline failed. Please try again.",
    body |-> NoBody ]

\* List[ConditionResult]: name and confidence of each entry
ConditionResults(conds) ==
  [ k \in 1..Len(conds) |->
      [ name |-> conds[k].name, confidence |-> conds[k].confidence ] ]

\* severity_color=SEVERITY_COLORS.get("NORMAL")
severity_color_Fixed(sev) == SEVERITY_COLORS["NORMAL"]

\* severity_color=SEVERITY_COLORS.get(vision_result["severity"], "#16A34A")
severity_color(sev) == Get(SEVERITY_COLORS, sev, "#16A34A")

\* StorageService.upload_bytes: the url of the blob, or the local name
BlobUrl(mode, scan_id, name) ==
  << IF mode = "azure" THEN "https" ELSE "local", scan_id, name >>

\* return AnalysisResponse(...)
analysis_response(scan_id, vision_result, report_sections, mode) ==
  [ status |-> 200, detail |-> "none",
    body |->
      [ scan_id         |-> scan_id,
        severity        |-> vision_result.severity,
        severity_color  |-> severity_color(vision_result.severity),
        conditions      |-> ConditionResults(vision_result.conditions),
        report          |-> report_sections,
        heatmap_url     |-> BlobUrl(mode, scan_id, "heatmap.png"),
        fhir_report_url |-> BlobUrl(mode, scan_id, "report.fhir.json") ] ]

\* the label of each output of the served model
ServedPathologies ==
  [ i \in 1..NumOutputs |->
      << "Cardiomegaly", "Mass", "Lung Opacity" >>[((i - 1) % 3) + 1] ]

\* sigmoid outputs of the served model: all outputs alike, or one output high
ServedScores ==
  { [ i \in 1..NumOutputs |-> p ] : p \in EngineProbabilities }
    \cup { [ i \in 1..NumOutputs |-> IF i = k THEN 90 ELSE 20 ] :
             k \in 1..NumOutputs }

\* the process before the lifespan startup: no model instance, the storage
\* service with a blob client or, without a connection string, in local mode
AnalyzeInit ==
  /\ SevIdle /\ HooksInit /\ CamIdle /\ CallIdle /\ DocIdle /\ LoopIdle
  /\ weights = SomeWeights
  /\ pathologies = ServedPathologies
  /\ started = FALSE
  /\ modelInstance = 0
  /\ modelLoads = 0
  /\ loadedAt = "none"
  /\ instancesSeen = { }
  /\ storageMode \in { "azure", "local" }
  /\ blobs = { }
  /\ outcome = << >>
  /\ request = NoRequest
  /\ response = NoResponse
  /\ raised = "none"
  /\ stepRuns = << >>

\* lifespan, up to its yield: the audit logger is set up, then requests are
\* served
Lifespan ==
  /\ ~started
  /\ started' = TRUE
  /\ UNCHANGED << modelInstance, modelLoads, loadedAt, instancesSeen,
                  storageMode, blobs, outcome, request, response, raised,
                  stepRuns >>
  /\ UNCHANGED << sevVars, engineVars, hookVars, camVars, callVars, docVars,
                  loopVars >>

\* raise HTTPException before the try block
Rejected(status, detail) ==
  /\ response' = [ status |-> status, detail |-> detail, body |-> NoBody ]
  /\ raised' = "none"
  /\ stepRuns' = [ s \in StepNames |-> 0 ]
  /\ UNCHANGED << modelInstance, modelLoads, loadedAt, instancesSeen, blobs,
                  outcome >>
  /\ UNCHANGED << sevVars, engineVars, hookVars, camVars, callVars, docVars >>

\* the try block of analyze_scan and its except clause
Pipeline(req, scores, fault) ==
  LET scan_id == Len(outcome) + 1
      failed == FirstFailure(req, fault)
      Reached(k) == failed = 0 \/ k <= failed
      Returned(k) == failed = 0 \/ k < failed
      azure == storageMode = "azure"
  IN  /\ stepRuns' = [ s \in StepNames |->
                         IF \E k \in 1..Len(PIPELINE_STEPS) :
                              PIPELINE_STEPS[k] = s /\ Reached(k)
                         THEN 1 ELSE 0 ]
      /\ raised' = IF failed = 0 THEN "none"
                   ELSE Raises(PIPELINE_STEPS[failed], req, fault)
      \* get_vision_model: if _model_instance is None, construct it
      /\ IF Returned(1) /\ modelInstance = 0
         THEN /\ modelInstance' = modelLoads + 1
              /\ modelLoads' = modelLoads + 1
              /\ loadedAt' = "request"
         ELSE UNCHANGED << modelInstance, modelLoads, loadedAt >>
      /\ instancesSeen' = IF Returned(1)
                          THEN instancesSeen \cup { modelInstance' }
                          ELSE instancesSeen
      /\ IF Reached(2)
         THEN predict(req.image, scores)
         ELSE UNCHANGED << sevVars, engineVars, hookVars, camVars, callVars >>
      /\ report' = IF Returned(4)
                   THEN generate_report(result'.conditions, result'.severity)
                   ELSE report
      /\ blobs' = blobs
           \cup (IF Returned(5) /\ azure
                 THEN { << scan_id, "heatmap.png" >> } ELSE { })
           \cup (IF Returned(7) /\ azure
                 THEN { << scan_id, "report.fhir.json" >> } ELSE { })
      /\ fhirCall' = IF Returned(6)
                     THEN [ scan_id |-> scan_id,
                            conditions |-> result'.conditions,
                            report_sections |-> report',
                            severity |-> result'.severity ]
                     ELSE fhirCall
      /\ fhir' = IF Returned(6)
                 THEN generate_fhir_report(scan_id, result'.conditions, report',
                                           result'.severity)
                 ELSE fhir
      /\ response' = IF failed = 0
                     THEN analysis_response(scan_id, result', report',
                                            storageMode)
                     ELSE pipeline_failure(raised')
      /\ outcome' = Append(outcome, response'.status)

\* POST /analyze: the dependency, the two checks, the pipeline
AnalyzeScan(req, scores, fault) ==
  /\ started
  /\ Len(outcome) < MaxRequests
  /\ request' = req
  /\ UNCHANGED << started, storageMode, loopVars >>
  /\ IF get_current_user(req.token).status # 200
     THEN Rejected(get_current_user(req.token).status,
                   get_current_user(req.token).detail)
     ELSE IF req.content_type \notin ALLOWED_CONTENT_TYPES
     THEN Rejected(415, "Unsupported file type")
     ELSE IF req.size > MAX_FILE_SIZE_BYTES
     THEN Rejected(413, "File too large. Maximum size: 10MB")
     ELSE Pipeline(req, scores, fault)

\* a well-formed request from a signed-in user
Upload(image_bytes) ==
  [ token |-> "valid", content_type |-> "image/png", size |-> 2048,
    image |-> image_bytes ]

AnalyzeNext ==
  \/ Lifespan
  \/ \E image_bytes \in PredictImages, fault \in Faults :
       IF DecodeError(image_bytes) # "none"
       THEN AnalyzeScan(Upload(image_bytes), << >>, fault)
       ELSE \E scores \in ServedScores :
              AnalyzeScan(Upload(image_bytes), scores, fault)

SpecAnalyze == AnalyzeInit /\ [][AnalyzeNext]_vars

\* C11: a failure raised by any step of the pipeline is answered with one
\* 500 response whose detail is the fixed generic text and not the
\* exception's, and every step has run at most once
C11_FailureIsGeneric500 ==
  raised # "none" =>
    /\ response.status = 500
    /\ response.detail = "Analysis pipeline failed. Please try again."
    /\ response.detail # raised
    /\ response.body = NoBody
    /\ outcome[Len(outcome)] = 500
    /\ \A s \in StepNames : stepRuns[s] <= 1

\* the second upload failed after every other step returned
C11_Witness ==
  /\ raised = "ServiceRequestError: blob endpoint unreachable"
  /\ stepRuns["upload_fhir"] = 1
  /\ response.status = 500

\* the decoder's error in predict
C11_WitnessPredict ==
  /\ raised = "UnidentifiedImageError"
  /\ stepRuns["predict"] = 1
  /\ stepRuns["overlay"] = 0
  /\ response.status = 500

\* C12: the vision model is loaded exactly once, at startup before any
\* request is served; every get_vision_model call returns that instance and
\* no request replaces the loaded weights
C12_LoadedOnceAtStartup ==
  started =>
    /\ modelInstance # 0
    /\ modelLoads = 1
    /\ loadedAt = "startup"
    /\ instancesSeen \subseteq { modelInstance }
    /\ weights = SomeWeights

\* ------------------------------------------------------------------------
\* Specification of the checks in front of the pipeline
\* ------------------------------------------------------------------------

\* requests with and without a token, of every declared type, of a size
\* below, on and above the limit
GateRequests ==
  [ token        : { "none", "valid" },
    content_type : ALLOWED_CONTENT_TYPES \cup { "application/pdf" },
    size         : { 2048, MAX_FILE_SIZE_BYTES, MAX_FILE_SIZE_BYTES + 1 },
    image        : PredictImages ]

GateNext ==
  \/ Lifespan
  \/ \E req \in GateRequests :
       AnalyzeScan(req,
                   IF DecodeError(req.image) # "none" THEN << >>
                   ELSE [ i \in 1..NumOutputs |-> IF i = 1 THEN 90 ELSE 20 ],
                   "none")

SpecGate == AnalyzeInit /\ [][GateNext]_vars

\* C13: the pipeline runs only for a request that is authenticated, declares
\* one of the three image types and is at most 10 MiB long; a request
\* without a token is answered 403, an authenticated one of another type 415,
\* an oversize one 413, and none of these runs inference or stores a blob
C13_GateBeforePipeline ==
  [][ started =>
        LET req == request'
            typed == req.content_type \in { "image/jpeg", "image/png", "image/jpg" }
            ran == \/ blobs' # blobs
                   \/ outcome' # outcome
                   \/ lastCall' # lastCall
                   \/ image' # image
                   \/ << hookVars, camVars, result >>' # << hookVars, camVars, result >>
                   \/ modelLoads' # modelLoads
                   \/ \E s \in StepNames : stepRuns'[s] > 0
        IN  /\ ran => /\ req.token # "none"
                      /\ typed
                      /\ req.size <= 10485760
            /\ req.token = "none" => response'.status = 403 /\ ~ran
            /\ req.token # "none" /\ ~typed => response'.status = 415 /\ ~ran
            /\ req.token # "none" /\ typed /\ req.size > 10485760 =>
                 response'.status = 413 /\ ~ran
            /\ req.token # "none" /\ typed /\ req.size <= 10485760 =>
                 response'.status \in { 200, 500 } /\ stepRuns'["predict"] = 1
    ]_vars

\* an authenticated upload of an allowed type, one byte over the limit
C13_Witness ==
  /\ request.token = "valid"
  /\ request.content_type = "image/jpeg"
  /\ request.size = 10485761
  /\ response.status = 413
  /\ \A s \in StepNames : stepRuns[s] = 0

\* a request without a token
C13_WitnessNoToken ==
  /\ request.token = "none"
  /\ request.content_type = "image/png"
  /\ response.status = 403

\* an authenticated upload of a type that is not allowed
C13_WitnessType ==
  /\ request.token = "valid"
  /\ request.content_type = "application/pdf"
  /\ request.size = 2048
  /\ response.status = 415

\* an upload of exactly 10 MiB is analysed
C13_WitnessAtLimit ==
  /\ request.token = "valid"
  /\ request.size = 10485760
  /\ response.status = 200

\* the display color of each severity tier
TierColor(t) ==
  CASE t = "URGENT"   -> "#DC2626"
    [] t = "SEVERE"   -> "#EA580C"
    [] t = "MODERATE" -> "#D97706"
    [] t = "MILD"     -> "#65A30D"
    [] t = "NORMAL"   -> "#16A34A"
    [] OTHER          -> "none"

\* C14: when every step of the pipeline returns, the response is 200 and
\* carries the severity and the conditions predict returned, entry for entry
\* in the same order, and the display color of that severity tier
C14_ResponseCarriesPrediction ==
  /\ response.status = 200 =>
       /\ raised = "none"
       /\ \A s \in StepNames : stepRuns[s] = 1
       /\ response.body.severity = result.severity
       /\ response.body.severity \in Tiers
       /\ Len(response.body.conditions) = Len(result.conditions)
       /\ \A k \in 1..Len(result.conditions) :
            /\ response.body.conditions[k].name = result.conditions[k].name
            /\ response.body.conditions[k].confidence =
                 result.conditions[k].confidence
       /\ result.conditions = SortDesc(ZipFilter(pathologies, probabilities))
       /\ response.body.severity_color = TierColor(response.body.severity)
  /\ (raised = "none" /\ stepRuns # << >> /\ stepRuns["predict"] = 1) =>
       response.status = 200

\* a scan with several findings of different confidence, not NORMAL
C14_Witness ==
  /\ response.status = 200
  /\ Len(response.body.conditions) >= 2
  /\ response.body.conditions[1].confidence > response.body.conditions[2].confidence
  /\ response.body.severity # "NORMAL"
  /\ response.body.severity_color # "#16A34A"

\* C18: the uploads of a request are all-or-nothing: a scan_id whose request
\* ended with the 500 response has no blob stored, neither heatmap.png nor
\* report.fhir.json; blobs exist only for scan_ids whose request returned 200
C18_UploadsAllOrNothing ==
  \A b \in blobs : outcome[b[1]] = 200

\* round(v * 255) of the fraction v, a tie going to the even neighbour
Rounded255(v) ==
  LET q == (v[1] * 255) \div v[2]
      r == (v[1] * 255) % v[2]
  IN  IF 2 * r < v[2] THEN q
      ELSE IF 2 * r > v[2] THEN q + 1
      ELSE IF q % 2 = 0 THEN q ELSE q + 1

\* C17 as stated: every saliency value v is turned into the intensity
\* round(v * 255), also when v * 255 has a fractional part of 0.5 or more
C17_IntensityIsRounded ==
  overlay # NoOverlay =>
    \A j \in DOMAIN cam : overlay.intensity[j] = Rounded255(cam[j])

\* C17: every saliency value v in [0, 1] is turned into the 8-bit intensity
\* floor(v * 255): the fractional part of v * 255 is cut, never rounded up
C17_IntensityIsTruncated ==
  overlay # NoOverlay =>
    /\ DOMAIN overlay.intensity = DOMAIN cam
    /\ \A j \in DOMAIN cam :
         LET i == overlay.intensity[j]
         IN  /\ i \in 0..255
             /\ i * cam[j][2] <= 255 * cam[j][1]
             /\ 255 * cam[j][1] < (i + 1) * cam[j][2]

\* an overlay of a map with a value whose v * 255 has a fraction of 0.5 or more
C17_Witness ==
  /\ overlay # NoOverlay
  /\ \E j \in DOMAIN cam :
       /\ cam[j][2] > 0
       /\ 2 * ((255 * cam[j][1]) % cam[j][2]) >= cam[j][2]
       /\ overlay.intensity[j] < Rounded255(cam[j])

\* ------------------------------------------------------------------------
\* Requests in flight on one event loop
\* ------------------------------------------------------------------------

MaxInFlight == 2

Requests == 1..MaxInFlight

NoCam == [ cam |-> << >>, act_of |-> 0, grad_of |-> 0 ]

\* def analyze_scan, run by the thread pool: any request's next step may run
CanRun_ThreadPool(r) == TRUE

\* async def analyze_scan: the coroutine that runs keeps the event loop until
\* it reaches an await; predict and the calls after it are plain calls
CanRun(r) == running \in { 0, r }

LoopInit ==
  /\ SevIdle /\ EngineIdle /\ HooksInit /\ CamIdle /\ CallIdle
  /\ DocIdle /\ ApiIdle
  /\ pc = [ r \in Requests |-> "idle" ]
  /\ running = 0
  /\ reqCall = [ r \in Requests |-> NoCall ]
  /\ reqCam = [ r \in Requests |-> NoCam ]
  /\ actOwner = 0
  /\ gradOwner = 0

LoopFrame ==
  UNCHANGED << sevVars, engineVars, camVars, callVars, docVars, apiVars >>

\* the request arrives, passes the type check and awaits file.read()
Receive(r) ==
  /\ pc[r] = "idle"
  /\ CanRun(r)
  /\ \E t \in GradCamTensors, class_idx \in ClassIndices :
       reqCall' = [ reqCall EXCEPT ![r] = [ tensor |-> t, class_idx |-> class_idx ] ]
  /\ pc' = [ pc EXCEPT ![r] = "reading" ]
  /\ running' = 0
  /\ UNCHANGED << hookVars, reqCam, actOwner, gradOwner >>
  /\ LoopFrame

\* the body is read; predict preprocesses it and runs the model under
\* no_grad, which fires the forward hook
Forward(r) ==
  /\ pc[r] = "reading"
  /\ CanRun(r)
  /\ activations' = forward_hook(activations,
                                 EngineActivations(weights, reqCall[r].tensor))
  /\ actOwner' = r
  /\ pc' = [ pc EXCEPT ![r] = "forward" ]
  /\ running' = r
  /\ UNCHANGED << gradients, gradOwner, reqCall, reqCam >>
  /\ LoopFrame

\* GradCAM.generate: output = self.model(image_tensor)
GenerateForward(r) ==
  /\ pc[r] = "forward"
  /\ CanRun(r)
  /\ activations' = forward_hook(activations,
                                 EngineActivations(weights, reqCall[r].tensor))
  /\ actOwner' = r
  /\ pc' = [ pc EXCEPT ![r] = "generate_forward" ]
  /\ running' = r
  /\ UNCHANGED << gradients, gradOwner, reqCall, reqCam >>
  /\ LoopFrame

\* GradCAM.generate: output[0, class_idx].backward()
Backward(r) ==
  /\ pc[r] = "generate_forward"
  /\ CanRun(r)
  /\ gradients' = backward_hook(gradients,
                                EngineGradients(weights, reqCall[r].tensor,
                                                reqCall[r].class_idx))
  /\ gradOwner' = r
  /\ pc' = [ pc EXCEPT ![r] = "backward" ]
  /\ running' = r
  /\ UNCHANGED << activations, actOwner, reqCall, reqCam >>
  /\ LoopFrame

\* GradCAM.generate: the map from self.gradients and self.activations
ReadHooks(r) ==
  /\ pc[r] = "backward"
  /\ CanRun(r)
  /\ reqCam' = [ reqCam EXCEPT ![r] =
                   [ cam |-> CamFromHooks(gradients, activations),
                     act_of |-> actOwner, grad_of |-> gradOwner ] ]
  /\ pc' = [ pc EXCEPT ![r] = "predicted" ]
  /\ running' = r
  /\ UNCHANGED << hookVars, actOwner, gradOwner, reqCall >>
  /\ LoopFrame

\* overlay and report, then the request awaits the first upload
AwaitUpload(r) ==
  /\ pc[r] = "predicted"
  /\ CanRun(r)
  /\ pc' = [ pc EXCEPT ![r] = "uploading" ]
  /\ running' = 0
  /\ UNCHANGED << hookVars, actOwner, gradOwner, reqCall, reqCam >>
  /\ LoopFrame

\* the uploads are done, the response is returned
Respond(r) ==
  /\ pc[r] = "uploading"
  /\ CanRun(r)
  /\ pc' = [ pc EXCEPT ![r] = "done" ]
  /\ running' = 0
  /\ UNCHANGED << hookVars, actOwner, gradOwner, reqCall, reqCam >>
  /\ LoopFrame

LoopNext ==
  \E r \in Requests :
    \/ Receive(r)
    \/ Forward(r)
    \/ GenerateForward(r)
    \/ Backward(r)
    \/ ReadHooks(r)
    \/ AwaitUpload(r)
    \/ Respond(r)

SpecLoop == LoopInit /\ [][LoopNext]_vars

InInference(r) == pc[r] \in { "forward", "generate_forward", "backward" }

\* C16: the forward pass, the backward pass and the read of the hooks of one
\* request never interleave with those of another request, so the saliency
\* map of each request is computed from the activations and the gradients
\* captured for that request
C16_InferenceSerialized ==
  /\ \A r \in Requests : \A q \in Requests :
       InInference(r) /\ q # r => ~InInference(q)
  /\ \A r \in Requests :
       InInference(r) =>
         /\ actOwner = r
         /\ pc[r] = "backward" => gradOwner = r
  /\ \A r \in Requests :
       reqCam[r] # NoCam =>
         /\ reqCam[r].act_of = r
         /\ reqCam[r].grad_of = r
         /\ reqCam[r].cam =
              CamFromHooks(EngineGradients(weights, reqCall[r].tensor,
                                           reqCall[r].class_idx),
                           EngineActivations(weights, reqCall[r].tensor))

\* two requests in flight together: the second ran its inference while the
\* first awaited its upload, and their maps differ
C16_Witness ==
  /\ pc[1] = "uploading"
  /\ pc[2] = "predicted"
  /\ reqCall[1] # reqCall[2]
  /\ reqCam[1].cam # reqCam[2].cam
  /\ reqCam[2].act_of = 2

====
